---- MODULE Spec2Model ----
(***************************************************************************)
(* Kauvery Nalam kidney-health self-assessment: the wizard of src/App.tsx  *)
(* (question flow, risk classification, submission) together with the      *)
(* data service calls it awaits.                                           *)
(***************************************************************************)
EXTENDS Integers, Sequences, FiniteSets, Bags, TLC

VARIABLES
    QUESTIONS,           \* the ordered question list imported from constants
    data,                \* argument of the function under test (harness)
    currentStep,         \* argument of getNextStepIndex (harness)
    calculatedAge,       \* age computed from the date of birth (harness)
    ret,                 \* value returned by the function under test (harness)
    qrLoading,           \* App: qrLoading
    qrError,             \* App: qrError
    qrFetch,             \* the /api/qr-config request: "none", "pending",
                         \* "loaded", "failed"; "unsent" when the effect
                         \* returned before fetching
    reportData,          \* App: reportData
    language,            \* state.language
    unit,                \* state.unit
    hasStarted,          \* state.hasStarted
    isUserInfoCollected, \* state.isUserInfoCollected
    userInfo,            \* state.userInfo, <<>> for null
    userId,              \* state.userId
    mode,                \* state.mode
    step,                \* state.step
    answers,             \* state.answers
    result,              \* state.result, <<>> for null
    qrNo,                \* state.qrNo
    isSubmitting,        \* state.isSubmitting
    pendingUsers,        \* bag of handleUserInfoSubmit calls awaiting createUser
    pendingSubmit,       \* handleAnswer / handleNext awaiting submitAssessment
    alertMsg,            \* alert() raised by the step just taken, or "none"
    intakes,             \* number of intake forms submitted so far
    ENABLE_CRM,          \* server: ENABLE_CRM
    req,                 \* server: req.body of the POST /api/assessment
    pc,                  \* server: position of the request handler
    cfg,                 \* server: cfg, <<>> while not looked up
    assessment,          \* server: rows of table assessment
    lookups,             \* server: qr_config queries made
    inserts,             \* server: INSERT statements issued
    crmCalls,            \* server: requests sent to the CRM
    crmStatus,           \* server: crmStatus
    crmResponseCode,     \* server: crmResponseCode
    res                  \* server: the response sent, <<>> before

pureVars == <<data, currentStep, calculatedAge, ret>>

qrVars == <<qrLoading, qrError, qrFetch, reportData>>

stateVars == <<language, hasStarted, isUserInfoCollected, userInfo, userId,
               mode, step, answers, result, unit, qrNo, isSubmitting>>

asyncVars == <<pendingUsers, pendingSubmit, alertMsg, intakes>>

wizardVars == <<qrVars, stateVars, asyncVars>>

serverVars == <<ENABLE_CRM, req, pc, cfg, assessment, lookups, inserts,
                crmCalls, crmStatus, crmResponseCode, res>>

(***************************************************************************)
(* Values                                                                  *)
(***************************************************************************)
\* reading a key that an object does not have
Undefined == "undefined"
\* the state's null
Null == "null"
\* harness: no call made yet
NoRet == "none"

\* JavaScript truthiness of a string-or-undefined value
Truthy(x) == x # Undefined /\ x # ""

\* obj[key]
Get(obj, key) == IF key \in DOMAIN obj THEN obj[key] ELSE Undefined

\* { ...obj, [key]: val }
Put(obj, key, val) ==
    [k \in (DOMAIN obj) \cup {key} |-> IF k = key THEN val ELSE obj[k]]

\* {}
EmptyObj == [k \in {} |-> Undefined]

(***************************************************************************)
(* The question list                                                       *)
(***************************************************************************)
\* a question without dependsOn / requiredValues
Plain(id, options) == [id |-> id, options |-> options]

\* a question shown only when answers[dep] is one of required
Dependent(id, options, dep, required) ==
    [id |-> id, options |-> options, dependsOn |-> dep,
     requiredValues |-> required]

YesNo == {"Yes", "No"}

\* The questionnaire: q1 age group (derived at intake), q2 gender, q3
\* diabetes / high BP, q4 family history, q5 painkillers, q6 swelling, q7
\* foamy urine, q8 breathlessness, q9 kidney stone, q10 kidney problem, q11
\* difficulty passing urine, q12 recent blood or urine test, q13 HbA1c, q14
\* serum creatinine, q15 urine protein; the three lab values are asked only
\* when a recent test is reported.  options lists the values the user picks
\* from; the age group "40-60" is written with a plain hyphen.
KidneyQuestions == <<
    Plain("q1",  {"Below 40", "40-60", "Above 60"}),
    Plain("q2",  {"Male"}),
    Plain("q3",  {"No"}),
    Plain("q4",  {"No"}),
    Plain("q5",  {"No"}),
    Plain("q6",  YesNo),
    Plain("q7",  {"No"}),
    Plain("q8",  {"No"}),
    Plain("q9",  {"No"}),
    Plain("q10", {"No"}),
    Plain("q11", {"No"}),
    Plain("q12", YesNo),
    Dependent("q13", {"Normal"}, "q12", {"Yes"}),
    Dependent("q14", {"Normal"}, "q12", {"Yes"}),
    Dependent("q15", {"None", "Trace"}, "q12", {"Yes"}) >>

\* QUESTIONS.length
N == Len(QUESTIONS)

\* QUESTIONS[i], 0-based
QuestionAt(i) == QUESTIONS[i + 1]

(***************************************************************************)
(* Risk classifier                                                         *)
(***************************************************************************)
\* the classifier with the RED test missing q10
calculateResult_NoQ10(d) ==
    LET isRed ==
            \/ Get(d, "q6") = "Yes"
            \/ Get(d, "q7") = "Yes"
            \/ Get(d, "q8") = "Yes"
        hasDiabetes == Truthy(Get(d, "q3")) /\ Get(d, "q3") # "No"
        hasTrace == Get(d, "q15") = "Trace"
        hasUrineProteinRisk ==
            /\ Truthy(Get(d, "q15"))
            /\ Get(d, "q15") \in {"Trace", "1+", "2+", "3+"}
        isAmber ==
            \/ (Truthy(Get(d, "q3")) /\ Get(d, "q3") # "No")
            \/ Get(d, "q4") = "Yes"
            \/ Get(d, "q5") = "Yes"
            \/ (Truthy(Get(d, "q9")) /\ Get(d, "q9") # "No")
            \/ Get(d, "q11") = "Yes"
            \/ Get(d, "q1") = "Above 60"
            \/ hasUrineProteinRisk
    IN  IF isRed THEN "RED"
        ELSE IF hasDiabetes /\ hasTrace THEN "AMBER"
        ELSE IF isAmber THEN "AMBER"
        ELSE "GREEN"

\* the classifier with only "Trace" counted as a urine-protein risk
calculateResult_TraceOnly(d) ==
    LET isRed ==
            \/ Get(d, "q6") = "Yes"
            \/ Get(d, "q7") = "Yes"
            \/ Get(d, "q8") = "Yes"
            \/ Get(d, "q10") = "Yes"
        hasDiabetes == Truthy(Get(d, "q3")) /\ Get(d, "q3") # "No"
        hasTrace == Get(d, "q15") = "Trace"
        hasUrineProteinRisk ==
            /\ Truthy(Get(d, "q15"))
            /\ Get(d, "q15") = "Trace"
        isAmber ==
            \/ (Truthy(Get(d, "q3")) /\ Get(d, "q3") # "No")
            \/ Get(d, "q4") = "Yes"
            \/ Get(d, "q5") = "Yes"
            \/ (Truthy(Get(d, "q9")) /\ Get(d, "q9") # "No")
            \/ Get(d, "q11") = "Yes"
            \/ Get(d, "q1") = "Above 60"
            \/ hasUrineProteinRisk
    IN  IF isRed THEN "RED"
        ELSE IF hasDiabetes /\ hasTrace THEN "AMBER"
        ELSE IF isAmber THEN "AMBER"
        ELSE "GREEN"

\* the classifier with the diabetes + trace rule tested before the RED rule
calculateResult_OverrideFirst(d) ==
    LET isRed ==
            \/ Get(d, "q6") = "Yes"
            \/ Get(d, "q7") = "Yes"
            \/ Get(d, "q8") = "Yes"
            \/ Get(d, "q10") = "Yes"
        hasDiabetes == Truthy(Get(d, "q3")) /\ Get(d, "q3") # "No"
        hasTrace == Get(d, "q15") = "Trace"
        hasUrineProteinRisk ==
            /\ Truthy(Get(d, "q15"))
            /\ Get(d, "q15") \in {"Trace", "1+", "2+", "3+"}
        isAmber ==
            \/ (Truthy(Get(d, "q3")) /\ Get(d, "q3") # "No")
            \/ Get(d, "q4") = "Yes"
            \/ Get(d, "q5") = "Yes"
            \/ (Truthy(Get(d, "q9")) /\ Get(d, "q9") # "No")
            \/ Get(d, "q11") = "Yes"
            \/ Get(d, "q1") = "Above 60"
            \/ hasUrineProteinRisk
    IN  IF hasDiabetes /\ hasTrace THEN "AMBER"
        ELSE IF isRed THEN "RED"
        ELSE IF isAmber THEN "AMBER"
        ELSE "GREEN"

\* the classification reading a missing q3 or q9 as an answer other than No
calculateResult_MissingNotNo(d) ==
    LET isRed ==
            \/ Get(d, "q6") = "Yes"
            \/ Get(d, "q7") = "Yes"
            \/ Get(d, "q8") = "Yes"
            \/ Get(d, "q10") = "Yes"
        hasDiabetes == Get(d, "q3") # "No"
        hasTrace == Get(d, "q15") = "Trace"
        hasUrineProteinRisk ==
            /\ Truthy(Get(d, "q15"))
            /\ Get(d, "q15") \in {"Trace", "1+", "2+", "3+"}
        isAmber ==
            \/ Get(d, "q3") # "No"
            \/ Get(d, "q4") = "Yes"
            \/ Get(d, "q5") = "Yes"
            \/ Get(d, "q9") # "No"
            \/ Get(d, "q11") = "Yes"
            \/ Get(d, "q1") = "Above 60"
            \/ hasUrineProteinRisk
    IN  IF isRed THEN "RED"
        ELSE IF hasDiabetes /\ hasTrace THEN "AMBER"
        ELSE IF isAmber THEN "AMBER"
        ELSE "GREEN"

\* the classification whose override escalates to RED
calculateResult_OverrideRed(d) ==
    LET isRed ==
            \/ Get(d, "q6") = "Yes"
            \/ Get(d, "q7") = "Yes"
            \/ Get(d, "q8") = "Yes"
            \/ Get(d, "q10") = "Yes"
        hasDiabetes == Truthy(Get(d, "q3")) /\ Get(d, "q3") # "No"
        hasTrace == Get(d, "q15") = "Trace"
        hasUrineProteinRisk ==
            /\ Truthy(Get(d, "q15"))
            /\ Get(d, "q15") \in {"Trace", "1+", "2+", "3+"}
        isAmber ==
            \/ (Truthy(Get(d, "q3")) /\ Get(d, "q3") # "No")
            \/ Get(d, "q4") = "Yes"
            \/ Get(d, "q5") = "Yes"
            \/ (Truthy(Get(d, "q9")) /\ Get(d, "q9") # "No")
            \/ Get(d, "q11") = "Yes"
            \/ Get(d, "q1") = "Above 60"
            \/ hasUrineProteinRisk
    IN  IF isRed THEN "RED"
        ELSE IF hasDiabetes /\ hasTrace THEN "RED"
        ELSE IF isAmber THEN "AMBER"
        ELSE "GREEN"

calculateResult(d) ==
    LET isRed ==
            \/ Get(d, "q6") = "Yes"
            \/ Get(d, "q7") = "Yes"
            \/ Get(d, "q8") = "Yes"
            \/ Get(d, "q10") = "Yes"
        hasDiabetes == Truthy(Get(d, "q3")) /\ Get(d, "q3") # "No"
        hasTrace == Get(d, "q15") = "Trace"
        hasUrineProteinRisk ==
            /\ Truthy(Get(d, "q15"))
            /\ Get(d, "q15") \in {"Trace", "1+", "2+", "3+"}
        isAmber ==
            \/ (Truthy(Get(d, "q3")) /\ Get(d, "q3") # "No")
            \/ Get(d, "q4") = "Yes"
            \/ Get(d, "q5") = "Yes"
            \/ (Truthy(Get(d, "q9")) /\ Get(d, "q9") # "No")
            \/ Get(d, "q11") = "Yes"
            \/ Get(d, "q1") = "Above 60"
            \/ hasUrineProteinRisk
    IN  IF isRed THEN "RED"
        ELSE IF hasDiabetes /\ hasTrace THEN "AMBER"
        ELSE IF isAmber THEN "AMBER"
        ELSE "GREEN"

(***************************************************************************)
(* Question flow controller                                                *)
(***************************************************************************)
\* the test also skipping a question whose dependsOn question is skipped
RECURSIVE Skipped_Ancestor(_, _)
Skipped_Ancestor(i, currentAnswers) ==
    LET q == QuestionAt(i)
    IN  /\ Truthy(Get(q, "dependsOn"))
        /\ "requiredValues" \in DOMAIN q
        /\ \/ Get(currentAnswers, q.dependsOn) \notin q.requiredValues
           \/ Skipped_Ancestor(
                  CHOOSE j \in 0..(N - 1) : QuestionAt(j).id = q.dependsOn,
                  currentAnswers)

\* the test inside both skip loops: the question at index i (0-based) has
\* dependsOn and requiredValues, and answers[dependsOn] is not included
Skipped(i, currentAnswers) ==
    LET q == QuestionAt(i)
    IN  /\ Truthy(Get(q, "dependsOn"))
        /\ "requiredValues" \in DOMAIN q
        /\ Get(currentAnswers, q.dependsOn) \notin q.requiredValues

\* while (nextStep < QUESTIONS.length) { skip: nextStep++; continue } break
RECURSIVE ScanForward(_, _)
ScanForward(nextStep, currentAnswers) ==
    IF nextStep < N /\ Skipped(nextStep, currentAnswers)
    THEN ScanForward(nextStep + 1, currentAnswers)
    ELSE nextStep

\* the forward scan stepping over one hidden question at most
getNextStepIndex_SkipOne(from, currentAnswers) ==
    IF from + 1 < N /\ Skipped(from + 1, currentAnswers)
    THEN from + 2
    ELSE from + 1

getNextStepIndex(from, currentAnswers) ==
    ScanForward(from + 1, currentAnswers)

(***************************************************************************)
(* App state                                                               *)
(***************************************************************************)
\* the server before any request
ServerIdle ==
    /\ ENABLE_CRM = FALSE
    /\ req = EmptyObj
    /\ pc = "listening"
    /\ cfg = <<>>
    /\ assessment = <<>>
    /\ lookups = 0
    /\ inserts = 0
    /\ crmCalls = 0
    /\ crmStatus = "skipped"
    /\ crmResponseCode = Null
    /\ res = <<>>

\* useState initial values
WizardIdle ==
    /\ qrLoading = TRUE
    /\ qrError = Null
    /\ qrFetch = "none"
    /\ reportData = Null
    /\ language = "en"
    /\ unit = "default"
    /\ hasStarted = FALSE
    /\ isUserInfoCollected = FALSE
    /\ userInfo = <<>>
    /\ userId = Null
    /\ mode = "self"
    /\ step = 0
    /\ answers = EmptyObj
    /\ result = <<>>
    /\ qrNo = Null
    /\ isSubmitting = FALSE
    /\ pendingUsers = EmptyBag
    /\ pendingSubmit = <<>>
    /\ alertMsg = "none"
    /\ intakes = 0

(***************************************************************************)
(* Harness for the two pure functions: the argument is drawn at the start, *)
(* one call is made and its value kept in ret (<<>> before the call)       *)
(***************************************************************************)
\* drop the keys whose value is undefined
Strip(f) == [k \in {x \in DOMAIN f : f[x] # Undefined} |-> f[k]]

OptYesNo == {Undefined, "Yes", "No"}

\* answer sets over every key calculateResult reads, each key possibly
\* missing
ClassifyInit ==
    /\ WizardIdle
    /\ ServerIdle
    /\ QUESTIONS = KidneyQuestions
    /\ currentStep = 0
    /\ calculatedAge = 0
    /\ ret = <<>>
    /\ \E v1 \in {Undefined, "Below 40", "40-60", "Above 60"},
          v3 \in {Undefined, "No", "Diabetes", "Both"},
          v4 \in OptYesNo, v5 \in OptYesNo, v6 \in OptYesNo,
          v7 \in OptYesNo, v8 \in OptYesNo,
          v9 \in {Undefined, "Yes", "No", "Not sure"},
          v10 \in OptYesNo, v11 \in OptYesNo,
          v15 \in {Undefined, "None", "Trace", "1+", "2+", "3+"} :
            data = Strip([q1 |-> v1, q3 |-> v3, q4 |-> v4, q5 |-> v5,
                          q6 |-> v6, q7 |-> v7, q8 |-> v8, q9 |-> v9,
                          q10 |-> v10, q11 |-> v11, q15 |-> v15])

Classify ==
    /\ ret = <<>>
    /\ ret' = <<calculateResult(data)>>
    /\ UNCHANGED <<QUESTIONS, data, currentStep, calculatedAge, wizardVars,
                   serverVars>>

\* Question lists for the scan: the questionnaire, a list without
\* dependencies, a list whose lab questions form a chain (each depends on
\* the one before), and a list with dependent questions early on.
SetDep(qs, i, dep, required) ==
    [qs EXCEPT ![i] = Dependent(qs[i].id, qs[i].options, dep, required)]

NoDepQuestions ==
    [i \in 1..Len(KidneyQuestions) |->
        Plain(KidneyQuestions[i].id, KidneyQuestions[i].options)]

ChainQuestions ==
    SetDep(SetDep(KidneyQuestions, 14, "q13", {"Normal"}),
           15, "q14", {"Normal", "High"})

EarlyQuestions ==
    SetDep(SetDep(SetDep(NoDepQuestions, 4, "q3", {"Diabetes", "Both"}),
                  5, "q4", {"Yes"}),
           15, "q3", {"Diabetes", "Both"})

FlowLists ==
    {KidneyQuestions, NoDepQuestions, ChainQuestions, EarlyQuestions}

FlowInit ==
    /\ WizardIdle
    /\ ServerIdle
    /\ QUESTIONS \in FlowLists
    /\ currentStep \in 0..(Len(KidneyQuestions) - 1)
    /\ calculatedAge = 0
    /\ ret = <<>>
    /\ \E v3 \in {Undefined, "No", "Diabetes"},
          v4 \in OptYesNo, v12 \in OptYesNo,
          v13 \in {Undefined, "Normal", "High"},
          v14 \in {Undefined, "Normal", "High"} :
            data = Strip([q3 |-> v3, q4 |-> v4, q12 |-> v12,
                          q13 |-> v13, q14 |-> v14])

Scan ==
    /\ ret = <<>>
    /\ ret' = <<getNextStepIndex(currentStep, data)>>
    /\ UNCHANGED <<QUESTIONS, data, currentStep, calculatedAge, wizardVars,
                   serverVars>>

vars == <<QUESTIONS, pureVars, wizardVars, serverVars>>

SpecClassify == ClassifyInit /\ [][Classify]_vars

SpecFlow == FlowInit /\ [][Scan]_vars

(***************************************************************************)
(* Properties of the classifier                                            *)
(***************************************************************************)
Has(d, k) == k \in DOMAIN d

AnyRedFlag(d) == \E k \in {"q6", "q7", "q8", "q10"} : Has(d, k) /\ d[k] = "Yes"

PresentNotNo(d, k) == Has(d, k) /\ d[k] # "No"

Is(d, k, v) == Has(d, k) /\ d[k] = v

AmberCondition(d) ==
    \/ PresentNotNo(d, "q3")
    \/ Is(d, "q4", "Yes")
    \/ Is(d, "q5", "Yes")
    \/ PresentNotNo(d, "q9")
    \/ Is(d, "q11", "Yes")
    \/ Is(d, "q1", "Above 60")
    \/ \E v \in {"Trace", "1+", "2+", "3+"} : Is(d, "q15", v)

Classified == ret # <<>>

\* C1: whenever one of q6, q7, q8, q10 is "Yes" the zone returned is RED,
\* whatever the other answers are
C1_RedDominance ==
    (Classified /\ AnyRedFlag(data)) => ret[1] = "RED"

C1_Witness ==
    /\ Classified /\ ret[1] = "RED"
    /\ Is(data, "q10", "Yes") /\ Is(data, "q6", "No")
    /\ PresentNotNo(data, "q3") /\ Is(data, "q15", "Trace")

\* C2: the zone is one of RED, AMBER, GREEN; without a RED flag it is AMBER
\* exactly when one of the seven AMBER conditions holds and GREEN otherwise
C2_AmberIffCondition ==
    Classified =>
        /\ ret[1] \in {"RED", "AMBER", "GREEN"}
        /\ ~AnyRedFlag(data) =>
              /\ (ret[1] = "AMBER") <=> AmberCondition(data)
              /\ (ret[1] = "GREEN") <=> ~AmberCondition(data)

C2_Witness ==
    /\ Classified /\ ret[1] = "AMBER"
    /\ Is(data, "q15", "3+") /\ Is(data, "q3", "No")
    /\ \A k \in {"q4", "q5", "q9", "q11"} : Is(data, k, "No")
    /\ Is(data, "q1", "Below 40")

\* C3: q3 present and not "No" with q15 = "Trace" gives AMBER when no RED
\* flag is "Yes", and never gives AMBER when a RED flag is "Yes"
C3_DiabeticTrace ==
    (Classified /\ PresentNotNo(data, "q3") /\ Is(data, "q15", "Trace")) =>
        /\ ~AnyRedFlag(data) => ret[1] = "AMBER"
        /\ AnyRedFlag(data) => ret[1] # "AMBER"

C3_Witness ==
    /\ Classified /\ ret[1] = "AMBER"
    /\ Is(data, "q3", "Diabetes") /\ Is(data, "q15", "Trace")
    /\ \A k \in {"q6", "q7", "q8", "q10"} : Is(data, k, "No")

(***************************************************************************)
(* Properties of the forward scan                                          *)
(***************************************************************************)
\* a question is visible under answers a: no dependsOn, or a[dependsOn] is
\* one of its requiredValues
Visible(i, a) ==
    LET q == QuestionAt(i)
    IN  \/ ~Has(q, "dependsOn")
        \/ (Has(a, q.dependsOn) /\ a[q.dependsOn] \in q.requiredValues)

VisibleAfter(i, a) == {j \in (i + 1)..(N - 1) : Visible(j, a)}

Least(S) == CHOOSE x \in S : \A y \in S : x <= y

\* C4: the scan returns the smallest visible index after currentStep, or N
\* when there is none
C4_NextVisible ==
    ret # <<>> =>
        IF VisibleAfter(currentStep, data) = {}
        THEN ret[1] = N
        ELSE ret[1] = Least(VisibleAfter(currentStep, data))

\* hidden questions were stepped over and a visible one was found
C4_Witness ==
    /\ ret # <<>>
    /\ ret[1] > currentStep + 2
    /\ ret[1] < N

\* the scan ran off the end of the list over hidden questions
C4_WitnessEnd ==
    /\ ret # <<>>
    /\ ret[1] = N
    /\ currentStep < N - 2

(***************************************************************************)
(* Bounds and inputs of the wizard                                         *)
(***************************************************************************)
\* intake forms submitted in one session
MaxIntakes == 2

\* ages entered in the intake form (validated to 0..119)
Ages == {35, 65}
\* the ?qr= parameter: absent or a code
QrParams == {Null, "KH05"}

\* the r parameter of the page URL
RParams == {Null, "r1"}

\* the location of the QR configuration
Locations == {"Chennai"}

Languages == {"en", "ta"}
\* user_id values the users API returns
UserIds == {"u1"}
\* new Date() at the time of submission; month is 0-based
Todays == {[date |-> 5, month |-> 10, year |-> 2026]}
\* Math.random() in thousandths, 0 <= r < 1000
Randoms == {0, 999}

Modes == {"self", "parent"}

\* A question list in which a question the classifier reads is conditional:
\* difficulty passing urine (q11) is asked only after a kidney stone (q9).
StoneQuestions ==
    [KidneyQuestions EXCEPT
        ![6] = Plain("q6", {"No"}),
        ![9] = Plain("q9", YesNo),
        ![11] = Dependent("q11", YesNo, "q9", {"Yes"}),
        ![12] = Plain("q12", {"No"})]

\* A list whose lab questions form a chain: creatinine (q13) is asked after
\* a recent test (q12), eGFR (q14) after a creatinine value, urine protein
\* (q15) after an eGFR value.
LabChainQuestions ==
    [ChainQuestions EXCEPT
        ![3] = Plain("q3", {"No"}),
        ![6] = Plain("q6", {"No"})]

\* A list whose first lab value (q13) is asked of everybody: after q12 is
\* changed to "No" the last visible question is one answered before, and
\* the Next button completes the flow.
LateLabQuestions ==
    [KidneyQuestions EXCEPT
        ![6] = Plain("q6", {"No"}),
        ![13] = Plain("q13", {"Normal"}),
        ![15] = Dependent("q15", {"None"}, "q12", {"Yes"})]

WizardLists ==
    {KidneyQuestions, StoneQuestions, LabChainQuestions, LateLabQuestions}

(***************************************************************************)
(* dataService                                                             *)
(***************************************************************************)
\* String(n).padStart(2, '0') for 0 <= n <= 99, as a pair of digits
Pad2(n) == <<n \div 10, n % 10>>

\* generatePriorityCode printing the 0-based month as it is
generatePriorityCode_MonthAsIs(zone, now, random) ==
    LET dd == Pad2(now.date)
        mm == Pad2(now.month)
        yy == Pad2(now.year % 100)
        randomSuffix == (100 * 1000 + random * 900) \div 1000
    IN  <<"KN", zone, dd \o mm \o yy, randomSuffix>>

\* generatePriorityCode: KN-{zone}-{dd}{mm}{yy}-{randomSuffix}, as the
\* sequence of its dash-separated parts
generatePriorityCode(zone, now, random) ==
    LET dd == Pad2(now.date)
        mm == Pad2(now.month + 1)
        yy == Pad2(now.year % 100)
        randomSuffix == (100 * 1000 + random * 900) \div 1000
    IN  <<"KN", zone, dd \o mm \o yy, randomSuffix>>

\* submitAssessment up to its fetch: without userId or qrNo it returns false
\* and issues no request
submitAssessment(uid, qr) ==
    IF uid = Null \/ ~Truthy(uid) THEN "false"
    ELSE IF qr = Null \/ ~Truthy(qr) THEN "false"
    ELSE "inflight"

\* the body sent to /api/assessment: the payload of submitAssessment
\* (result.code || 'N/A'; the user block is left out)
AssessmentPayload(submitted, resultObj, lang, md, uid, qr) ==
    [qr_no |-> qr, user_id |-> uid, answers |-> submitted,
     risk_zone |-> resultObj.zone,
     priority_code |-> IF Len(resultObj.code) = 0 THEN <<"N/A">>
                       ELSE resultObj.code,
     language |-> lang, mode |-> md]

(***************************************************************************)
(* Render routing of App                                                   *)
(***************************************************************************)
\* neither the loading nor the Invalid Access screen is returned
QrPassed == reportData = Null /\ ~qrLoading /\ qrError = Null /\ qrNo # Null

ReportShown == reportData # Null

QrLoadingShown == reportData = Null /\ qrLoading

InvalidAccessShown ==
    reportData = Null /\ ~qrLoading /\ (qrError # Null \/ qrNo = Null)

WelcomeShown == QrPassed /\ ~hasStarted

WizardShown == QrPassed /\ hasStarted

LoadingShown == WizardShown /\ isSubmitting

ResultShown == WizardShown /\ ~isSubmitting /\ result # <<>>

FormShown ==
    WizardShown /\ ~isSubmitting /\ result = <<>> /\ ~isUserInfoCollected

CardShown ==
    WizardShown /\ ~isSubmitting /\ result = <<>> /\ isUserInfoCollected

(***************************************************************************)
(* QR configuration load (useEffect on mount)                              *)
(***************************************************************************)
LoadQr(rParam, qrParam) ==
    /\ qrLoading /\ qrFetch = "none"
    /\ IF rParam # Null
       THEN /\ reportData' = rParam
            /\ qrLoading' = FALSE
            /\ qrFetch' = "unsent"
            /\ UNCHANGED <<qrError, qrNo>>
       ELSE IF qrParam = Null
       THEN /\ qrError' = "QR parameter is required"
            /\ qrLoading' = FALSE
            /\ qrFetch' = "unsent"
            /\ UNCHANGED <<reportData, qrNo>>
       ELSE /\ qrNo' = qrParam
            /\ qrFetch' = "pending"
            /\ UNCHANGED <<reportData, qrError, qrLoading>>
    /\ alertMsg' = "none"
    /\ UNCHANGED <<language, hasStarted, isUserInfoCollected, userInfo,
                   userId, mode, step, answers, result, unit, isSubmitting>>
    /\ UNCHANGED <<pendingUsers, pendingSubmit, intakes, QUESTIONS, pureVars, serverVars>>

\* the lookup answered with a qr_no
QrConfigLoaded(qr_no, location) ==
    /\ qrFetch = "pending"
    /\ qrFetch' = "loaded"
    /\ unit' = IF Truthy(location) THEN location ELSE unit
    /\ qrNo' = qr_no
    /\ qrError' = Null
    /\ qrLoading' = FALSE
    /\ alertMsg' = "none"
    /\ UNCHANGED <<language, hasStarted, isUserInfoCollected, userInfo,
                   userId, mode, step, answers, result, isSubmitting>>
    /\ UNCHANGED <<reportData, pendingUsers, pendingSubmit, intakes,
                   QUESTIONS, pureVars, serverVars>>

\* the failed lookup ending the loading state without an error
QrConfigFailed_Silent ==
    /\ qrFetch = "pending"
    /\ qrFetch' = "failed"
    /\ qrLoading' = FALSE
    /\ alertMsg' = "none"
    /\ UNCHANGED stateVars
    /\ UNCHANGED <<qrError, reportData, pendingUsers, pendingSubmit, intakes,
                   QUESTIONS, pureVars, serverVars>>

\* the lookup failed, or answered without a qr_no
QrConfigFailed ==
    /\ qrFetch = "pending"
    /\ qrFetch' = "failed"
    /\ qrError' = "QR not found or inactive"
    /\ qrLoading' = FALSE
    /\ alertMsg' = "none"
    /\ UNCHANGED stateVars
    /\ UNCHANGED <<reportData, pendingUsers, pendingSubmit, intakes,
                   QUESTIONS, pureVars, serverVars>>

(***************************************************************************)
(* Handlers of App                                                         *)
(***************************************************************************)
\* the selector of the welcome screen passes either language; the header
\* button of the wizard passes the other one
toggleLanguage(lang) ==
    /\ \/ WelcomeShown
       \/ WizardShown /\ lang # language
    /\ language' = lang
    /\ alertMsg' = "none"
    /\ UNCHANGED <<hasStarted, isUserInfoCollected, userInfo, userId, mode,
                   step, answers, result, unit, qrNo, isSubmitting>>
    /\ UNCHANGED <<qrVars, pendingUsers, pendingSubmit, intakes, QUESTIONS,
                   pureVars, serverVars>>

handleStart ==
    /\ WelcomeShown
    /\ hasStarted' = TRUE
    /\ alertMsg' = "none"
    /\ UNCHANGED <<isUserInfoCollected, userInfo, userId, mode, step,
                   answers, result, qrNo, language, unit, isSubmitting>>
    /\ UNCHANGED <<qrVars, pendingUsers, pendingSubmit, intakes, QUESTIONS,
                   pureVars, serverVars>>

\* the age group with 40 left out of the middle group
AgeGroup_From41(age) ==
    IF age < 40 THEN "Below 40"
    ELSE IF age > 40 /\ age <= 60 THEN "40-60"
    ELSE "Above 60"

\* the age group written to q1
AgeGroup(age) ==
    IF age < 40 THEN "Below 40"
    ELSE IF age >= 40 /\ age <= 60 THEN "40-60"
    ELSE "Above 60"

\* handleUserInfoSubmit up to `await createUser(info)`
handleUserInfoSubmit(info) ==
    /\ FormShown
    /\ intakes < MaxIntakes
    /\ intakes' = intakes + 1
    /\ LET newAnswers == Put(answers, "q1", AgeGroup(info.age))
       IN  pendingUsers' = pendingUsers (+)
               SetToBag({[info |-> info, newAnswers |-> newAnswers]})
    /\ alertMsg' = "none"
    /\ UNCHANGED pendingSubmit
    /\ UNCHANGED <<qrVars, stateVars, QUESTIONS, pureVars, serverVars>>

\* the continuation going on without testing the id returned
createUserReturns_NoTest(call, newUserId) ==
    /\ BagIn(call, pendingUsers)
    /\ pendingUsers' = pendingUsers (-) SetToBag({call})
    /\ userInfo' = <<call.info>>
    /\ userId' = newUserId
    /\ isUserInfoCollected' = TRUE
    /\ answers' = call.newAnswers
    /\ step' = 1
    /\ alertMsg' = "none"
    /\ UNCHANGED <<hasStarted, mode, result, qrNo, language, unit,
                   isSubmitting>>
    /\ UNCHANGED <<pendingSubmit, intakes, qrVars, QUESTIONS, pureVars, serverVars>>

\* handleUserInfoSubmit after createUser returned newUserId (null on failure)
createUserReturns(call, newUserId) ==
    /\ BagIn(call, pendingUsers)
    /\ pendingUsers' = pendingUsers (-) SetToBag({call})
    /\ IF newUserId = Null
       THEN /\ alertMsg' = "Failed to save user information"
            /\ UNCHANGED stateVars
       ELSE /\ userInfo' = <<call.info>>
            /\ userId' = newUserId
            /\ isUserInfoCollected' = TRUE
            /\ answers' = call.newAnswers
            /\ step' = 1
            /\ alertMsg' = "none"
            /\ UNCHANGED <<hasStarted, mode, result, qrNo, language, unit,
                           isSubmitting>>
    /\ UNCHANGED <<pendingSubmit, intakes, qrVars, QUESTIONS, pureVars, serverVars>>

\* the submission branch shared by handleAnswer and handleNext, up to
\* `await submitAssessment(...)`
BeginSubmit(by, submitted, now, random) ==
    LET zone == calculateResult(submitted)
        code == generatePriorityCode(zone, now, random)
        resultObj == [zone |-> zone, code |-> code]
    IN  /\ isSubmitting' = TRUE
        /\ pendingSubmit' =
               <<[by |-> by, answers |-> submitted, result |-> resultObj,
                  userId |-> userId, qrNo |-> qrNo, mode |-> mode,
                  payload |->
                      IF submitAssessment(userId, qrNo) = "false" THEN <<>>
                      ELSE <<AssessmentPayload(submitted, resultObj,
                                 language, mode, userId, qrNo)>>,
                  status |-> submitAssessment(userId, qrNo)]>>

\* handleAnswer scanning with the answers of before the tap
handleAnswer_OldAnswers(val, now, random) ==
    /\ CardShown
    /\ val \in QuestionAt(step).options
    /\ LET currentQ == QuestionAt(step)
           newAnswers == Put(answers, currentQ.id, val)
           nextStep == getNextStepIndex(step, answers)
       IN  /\ answers' = newAnswers
           /\ IF nextStep >= N
              THEN /\ BeginSubmit("answer", newAnswers, now, random)
                   /\ UNCHANGED step
              ELSE /\ step' = nextStep
                   /\ UNCHANGED <<isSubmitting, pendingSubmit>>
    /\ alertMsg' = "none"
    /\ UNCHANGED <<hasStarted, isUserInfoCollected, userInfo, userId, mode,
                   result, qrNo, language, unit>>
    /\ UNCHANGED <<pendingUsers, intakes, qrVars, QUESTIONS, pureVars, serverVars>>

\* handleAnswer storing the sentinel in step when the flow completes
handleAnswer_StepToEnd(val, now, random) ==
    /\ CardShown
    /\ val \in QuestionAt(step).options
    /\ LET currentQ == QuestionAt(step)
           newAnswers == Put(answers, currentQ.id, val)
           nextStep == getNextStepIndex(step, newAnswers)
       IN  /\ answers' = newAnswers
           /\ step' = nextStep
           /\ IF nextStep >= N
              THEN BeginSubmit("answer", newAnswers, now, random)
              ELSE UNCHANGED <<isSubmitting, pendingSubmit>>
    /\ alertMsg' = "none"
    /\ UNCHANGED <<hasStarted, isUserInfoCollected, userInfo, userId, mode,
                   result, qrNo, language, unit>>
    /\ UNCHANGED <<pendingUsers, intakes, qrVars, QUESTIONS, pureVars,
                   serverVars>>

handleAnswer(val, now, random) ==
    /\ CardShown
    /\ val \in QuestionAt(step).options
    /\ LET currentQ == QuestionAt(step)
           newAnswers == Put(answers, currentQ.id, val)
           nextStep == getNextStepIndex(step, newAnswers)
       IN  /\ answers' = newAnswers
           /\ IF nextStep >= N
              THEN /\ BeginSubmit("answer", newAnswers, now, random)
                   /\ UNCHANGED step
              ELSE /\ step' = nextStep
                   /\ UNCHANGED <<isSubmitting, pendingSubmit>>
    /\ alertMsg' = "none"
    /\ UNCHANGED <<hasStarted, isUserInfoCollected, userInfo, userId, mode,
                   result, qrNo, language, unit>>
    /\ UNCHANGED <<pendingUsers, intakes, qrVars, QUESTIONS, pureVars, serverVars>>

\* a Next button rendered on every question card
handleNext_Unanswered(now, random) ==
    /\ CardShown
    /\ LET nextStep == getNextStepIndex(step, answers)
       IN  IF nextStep >= N
           THEN /\ BeginSubmit("next", answers, now, random)
                /\ UNCHANGED step
           ELSE /\ step' = nextStep
                /\ UNCHANGED <<isSubmitting, pendingSubmit>>
    /\ alertMsg' = "none"
    /\ UNCHANGED <<hasStarted, isUserInfoCollected, userInfo, userId, mode,
                   answers, result, qrNo, language, unit>>
    /\ UNCHANGED <<pendingUsers, intakes, qrVars, QUESTIONS, pureVars,
                   serverVars>>

\* the Next button is rendered only when the current question has a value
handleNext(now, random) ==
    /\ CardShown
    /\ Truthy(Get(answers, QuestionAt(step).id))
    /\ LET nextStep == getNextStepIndex(step, answers)
       IN  IF nextStep >= N
           THEN /\ BeginSubmit("next", answers, now, random)
                /\ UNCHANGED step
           ELSE /\ step' = nextStep
                /\ UNCHANGED <<isSubmitting, pendingSubmit>>
    /\ alertMsg' = "none"
    /\ UNCHANGED <<hasStarted, isUserInfoCollected, userInfo, userId, mode,
                   answers, result, qrNo, language, unit>>
    /\ UNCHANGED <<pendingUsers, intakes, qrVars, QUESTIONS, pureVars, serverVars>>

\* the /api/assessment request completes: resp.ok, or not ok / thrown
submitSettles(ok) ==
    /\ pendingSubmit # <<>>
    /\ pendingSubmit[1].status = "inflight"
    /\ pendingSubmit' =
           <<[pendingSubmit[1] EXCEPT
                 !.status = IF ok THEN "true" ELSE "false"]>>
    /\ alertMsg' = "none"
    /\ UNCHANGED <<pendingUsers, intakes>>
    /\ UNCHANGED <<qrVars, stateVars, QUESTIONS, pureVars, serverVars>>

\* the continuation returning early when submitAssessment returned false
resumeSubmit_FailReturns ==
    /\ pendingSubmit # <<>>
    /\ pendingSubmit[1].status \in {"true", "false"}
    /\ IF pendingSubmit[1].status = "true"
       THEN /\ alertMsg' = "none"
            /\ answers' = IF pendingSubmit[1].by = "answer"
                          THEN pendingSubmit[1].answers
                          ELSE answers
            /\ result' = <<pendingSubmit[1].result>>
            /\ isSubmitting' = FALSE
       ELSE /\ alertMsg' = "Failed to save assessment"
            /\ isSubmitting' = FALSE
            /\ UNCHANGED <<answers, result>>
    /\ pendingSubmit' = <<>>
    /\ UNCHANGED <<hasStarted, isUserInfoCollected, userInfo, userId, mode,
                   step, qrNo, language, unit>>
    /\ UNCHANGED <<pendingUsers, intakes, qrVars, QUESTIONS, pureVars, serverVars>>

\* handleAnswer / handleNext after submitAssessment returned
resumeSubmit ==
    /\ pendingSubmit # <<>>
    /\ pendingSubmit[1].status \in {"true", "false"}
    /\ alertMsg' = IF pendingSubmit[1].status = "true"
                   THEN "none"
                   ELSE "Failed to save assessment"
    /\ answers' = IF pendingSubmit[1].by = "answer"
                  THEN pendingSubmit[1].answers
                  ELSE answers
    /\ result' = <<pendingSubmit[1].result>>
    /\ isSubmitting' = FALSE
    /\ pendingSubmit' = <<>>
    /\ UNCHANGED <<hasStarted, isUserInfoCollected, userInfo, userId, mode,
                   step, qrNo, language, unit>>
    /\ UNCHANGED <<pendingUsers, intakes, qrVars, QUESTIONS, pureVars, serverVars>>

\* while (prevStep >= 0) { skip: prevStep--; continue } break
RECURSIVE ScanBackward(_, _)
ScanBackward(prevStep, currentAnswers) ==
    IF prevStep >= 0 /\ Skipped(prevStep, currentAnswers)
    THEN ScanBackward(prevStep - 1, currentAnswers)
    ELSE prevStep

Max(a, b) == IF a >= b THEN a ELSE b

\* handleBack without its branch for step 1
handleBack_ToZero ==
    /\ CardShown
    /\ step' = Max(0, ScanBackward(step - 1, answers))
    /\ alertMsg' = "none"
    /\ UNCHANGED <<hasStarted, isUserInfoCollected, userInfo, userId, mode,
                   answers, result, qrNo, language, unit, isSubmitting>>
    /\ UNCHANGED <<qrVars, pendingUsers, pendingSubmit, intakes, QUESTIONS,
                   pureVars, serverVars>>

\* handleBack returning to the intake form with step reset to 0
handleBack_ResetStep ==
    /\ CardShown
    /\ IF step = 1
       THEN /\ isUserInfoCollected' = FALSE
            /\ step' = 0
       ELSE /\ step' = Max(0, ScanBackward(step - 1, answers))
            /\ UNCHANGED isUserInfoCollected
    /\ alertMsg' = "none"
    /\ UNCHANGED <<hasStarted, userInfo, userId, mode, answers, result, qrNo,
                   language, unit, isSubmitting>>
    /\ UNCHANGED <<qrVars, pendingUsers, pendingSubmit, intakes, QUESTIONS,
                   pureVars, serverVars>>

\* handleBack stepping to the index before, hidden or not
handleBack_NoSkip ==
    /\ CardShown
    /\ IF step = 1
       THEN /\ isUserInfoCollected' = FALSE
            /\ UNCHANGED step
       ELSE /\ step' = Max(0, step - 1)
            /\ UNCHANGED isUserInfoCollected
    /\ alertMsg' = "none"
    /\ UNCHANGED <<hasStarted, userInfo, userId, mode, answers, result, qrNo,
                   language, unit, isSubmitting>>
    /\ UNCHANGED <<qrVars, pendingUsers, pendingSubmit, intakes, QUESTIONS,
                   pureVars, serverVars>>

handleBack ==
    /\ CardShown
    /\ IF step = 1
       THEN /\ isUserInfoCollected' = FALSE
            /\ UNCHANGED step
       ELSE /\ step' = Max(0, ScanBackward(step - 1, answers))
            /\ UNCHANGED isUserInfoCollected
    /\ alertMsg' = "none"
    /\ UNCHANGED <<hasStarted, userInfo, userId, mode, answers, result, qrNo,
                   language, unit, isSubmitting>>
    /\ UNCHANGED <<qrVars, pendingUsers, pendingSubmit, intakes, QUESTIONS,
                   pureVars, serverVars>>

\* the two buttons of the result screen: the other mode, or 'self'
RestartModes == {IF mode = "self" THEN "parent" ELSE "self", "self"}

\* handleRestart ignoring the mode requested
handleRestart_SameMode(newMode) ==
    /\ ResultShown
    /\ newMode \in RestartModes
    /\ step' = 0
    /\ answers' = EmptyObj
    /\ result' = <<>>
    /\ userInfo' = <<>>
    /\ userId' = Null
    /\ isUserInfoCollected' = FALSE
    /\ hasStarted' = FALSE
    /\ alertMsg' = "none"
    /\ UNCHANGED <<mode, qrNo, language, unit, isSubmitting>>
    /\ UNCHANGED <<qrVars, pendingUsers, pendingSubmit, intakes, QUESTIONS,
                   pureVars, serverVars>>

\* handleRestart keeping the identity and going to step 1
handleRestart_KeepIdentity(newMode) ==
    /\ ResultShown
    /\ newMode \in RestartModes
    /\ mode' = newMode
    /\ step' = 1
    /\ answers' = EmptyObj
    /\ result' = <<>>
    /\ alertMsg' = "none"
    /\ UNCHANGED <<userInfo, userId, isUserInfoCollected, hasStarted, qrNo,
                   language, unit, isSubmitting>>
    /\ UNCHANGED <<qrVars, pendingUsers, pendingSubmit, intakes, QUESTIONS,
                   pureVars, serverVars>>

handleRestart(newMode) ==
    /\ ResultShown
    /\ newMode \in RestartModes
    /\ mode' = newMode
    /\ step' = 0
    /\ answers' = EmptyObj
    /\ result' = <<>>
    /\ userInfo' = <<>>
    /\ userId' = Null
    /\ isUserInfoCollected' = FALSE
    /\ hasStarted' = FALSE
    /\ alertMsg' = "none"
    /\ UNCHANGED <<qrNo, language, unit, isSubmitting>>
    /\ UNCHANGED <<qrVars, pendingUsers, pendingSubmit, intakes, QUESTIONS,
                   pureVars, serverVars>>

(***************************************************************************)
(* The wizard                                                              *)
(***************************************************************************)
Init ==
    /\ QUESTIONS \in WizardLists
    /\ data = EmptyObj
    /\ currentStep = 0
    /\ calculatedAge = 0
    /\ ret = <<>>
    /\ WizardIdle
    /\ ServerIdle

Next ==
    \/ \E rParam \in RParams, qrParam \in QrParams : LoadQr(rParam, qrParam)
    \/ \E qr_no \in QrParams \ {Null}, location \in Locations :
          QrConfigLoaded(qr_no, location)
    \/ QrConfigFailed
    \/ \E lang \in Languages : toggleLanguage(lang)
    \/ handleStart
    \/ \E age \in Ages : handleUserInfoSubmit([age |-> age])
    \/ \E call \in BagToSet(pendingUsers), u \in UserIds \cup {Null} :
          createUserReturns(call, u)
    \/ \E val \in UNION {QUESTIONS[i].options : i \in 1..N},
          now \in Todays, random \in Randoms :
          handleAnswer(val, now, random)
    \/ \E now \in Todays, random \in Randoms : handleNext(now, random)
    \/ \E ok \in BOOLEAN : submitSettles(ok)
    \/ resumeSubmit
    \/ handleBack
    \/ \E newMode \in Modes : handleRestart(newMode)

Spec == Init /\ [][Next]_vars

\* The event loop runs the continuation of a settled promise; nothing makes
\* the network answer, and nothing makes the user act.
LiveSpec == Spec /\ WF_vars(resumeSubmit)

(***************************************************************************)
(* Properties of the wizard                                                *)
(***************************************************************************)
(***************************************************************************)
(* Harness for the age group: the intake form computes an age from the     *)
(* date of birth, keeps it when it is in range, and submits it             *)
(***************************************************************************)
MaxCalculatedAge == 121

\* the age state of the form after its effect ran: <<>> for null
setAge(c) == IF c >= 0 /\ c < 120 THEN <<c>> ELSE <<>>

\* validateAll refuses a null age
validateAll(ageState) == ageState # <<>>

AgeInit ==
    /\ WizardIdle
    /\ ServerIdle
    /\ QUESTIONS = KidneyQuestions
    /\ data = EmptyObj
    /\ currentStep = 0
    \* a date of birth in the future gives a negative age
    /\ calculatedAge \in (-2)..MaxCalculatedAge
    /\ ret = <<>>

\* handleSubmit of the form, then the first lines of handleUserInfoSubmit
DeriveAgeGroup ==
    /\ ret = <<>>
    /\ validateAll(setAge(calculatedAge))
    /\ LET age == setAge(calculatedAge)[1]
           info == [age |-> IF age # 0 THEN age ELSE 0]
       IN  ret' = <<AgeGroup(info.age)>>
    /\ UNCHANGED <<QUESTIONS, data, currentStep, calculatedAge, wizardVars,
                   serverVars>>

SpecAge == AgeInit /\ [][DeriveAgeGroup]_vars

(***************************************************************************)
(* Harness for the priority code: a zone, a date and a value of            *)
(* Math.random() are drawn, and the code is generated once                 *)
(***************************************************************************)
Zones == {"RED", "AMBER", "GREEN"}

\* values of new Date(): first and last days, one- and two-digit months,
\* years ending in 00, 09, 26 and 99
CodeDates ==
    [date : {1, 9, 10, 31}, month : {0, 8, 9, 11},
     year : {2000, 2009, 2026, 2099}]

\* Math.random() in thousandths: every value of 0.000 .. 0.999
CodeRandoms == 0..999

CodeInit ==
    /\ WizardIdle
    /\ ServerIdle
    /\ QUESTIONS = KidneyQuestions
    /\ data \in [zone : Zones, now : CodeDates, random : CodeRandoms]
    /\ currentStep = 0
    /\ calculatedAge = 0
    /\ ret = <<>>

GenerateCode ==
    /\ ret = <<>>
    /\ ret' = <<generatePriorityCode(data.zone, data.now, data.random)>>
    /\ UNCHANGED <<QUESTIONS, data, currentStep, calculatedAge, wizardVars,
                   serverVars>>

SpecCode == CodeInit /\ [][GenerateCode]_vars

(***************************************************************************)
(* Properties                                                              *)
(***************************************************************************)
QuestionIds == {QUESTIONS[i].id : i \in 1..N}

IndexOf(id) == CHOOSE i \in 0..(N - 1) : QuestionAt(i).id = id

\* the keys of a whose question is hidden under a
HiddenKeys(a) ==
    {k \in DOMAIN a : k \in QuestionIds /\ ~Visible(IndexOf(k), a)}

\* a without the keys of hidden questions
VisibleOnly(a) == [k \in (DOMAIN a) \ HiddenKeys(a) |-> a[k]]

\* the zone the classification rules give
ZoneOf(a) ==
    IF AnyRedFlag(a) THEN "RED"
    ELSE IF AmberCondition(a) THEN "AMBER"
    ELSE "GREEN"

\* the index the forward scan should reach
NextVisibleIndex(i, a) ==
    IF VisibleAfter(i, a) = {} THEN N ELSE Least(VisibleAfter(i, a))

\* C5: once a result is computed, the answer set holds no key of a question
\* that is hidden under it
C5_NoHiddenKeys ==
    result # <<>> => HiddenKeys(answers) = {}

\* C6: at every submission the zone of the submitted answers equals the zone
\* of the same answers without the hidden questions
C6_HiddenAnswersDoNotCount ==
    pendingSubmit # <<>> =>
        pendingSubmit[1].result.zone =
            calculateResult(VisibleOnly(pendingSubmit[1].answers))

AllValues == UNION {QUESTIONS[i].options : i \in 1..N}

\* C7: an answer v at step s is recorded under the id of question s and
\* nothing else changes in the answers; when a visible question follows,
\* step moves to the first one, with no result and no submission; otherwise
\* step stays, isSubmitting is set and the zone in flight is the zone of the
\* answers including v
C7_AnswerTransition ==
    [][\A val \in AllValues, now \in Todays, random \in Randoms :
          handleAnswer(val, now, random) =>
            LET id == QuestionAt(step).id
                next == NextVisibleIndex(step, answers')
            IN  /\ Has(answers', id) /\ answers'[id] = val
                /\ \A k \in (DOMAIN answers') \ {id} :
                      Has(answers, k) /\ answers'[k] = answers[k]
                /\ result' = <<>>
                /\ IF next < N
                   THEN /\ step' = next
                        /\ ~isSubmitting'
                        /\ pendingSubmit' = <<>>
                   ELSE /\ step' = step
                        /\ isSubmitting'
                        /\ pendingSubmit' # <<>>
                        /\ pendingSubmit'[1].answers = answers'
                        /\ pendingSubmit'[1].result.zone = ZoneOf(answers')]_vars

\* the last answer of a run put the wizard in Submitting
C7_Witness ==
    /\ isSubmitting
    /\ pendingSubmit # <<>>
    /\ pendingSubmit[1].by = "answer"
    /\ step = N - 1
    /\ Has(answers, "q15")

\* C8: the wizard is in Submitting exactly while the call is awaited; when
\* the call has returned, true or false, the continuation can run, and the
\* step that ends the wait sets result to the zone and code computed before
\* the call and clears isSubmitting
C8_ResultedOnBothOutcomes ==
    [][/\ isSubmitting <=> pendingSubmit # <<>>
       /\ (pendingSubmit # <<>> /\ pendingSubmit[1].status # "inflight")
             => ENABLED resumeSubmit
       /\ (pendingSubmit # <<>> /\ pendingSubmit' = <<>>) =>
             /\ result' # <<>>
             /\ result'[1].zone = pendingSubmit[1].result.zone
             /\ result'[1].code = pendingSubmit[1].result.code
             /\ result'[1].zone = ZoneOf(pendingSubmit[1].answers)
             /\ ~isSubmitting']_vars

\* a result is shown after the persistence call failed
C8_Witness ==
    /\ result # <<>>
    /\ ~isSubmitting
    /\ alertMsg = "Failed to save assessment"

\* C9: the wizard does not wait for the persistence call: whenever it is in
\* Submitting it goes on to Resulted, also when the call never settles
C9_ResultWithoutWaiting ==
    isSubmitting ~> (result # <<>>)

\* C10: a submission starts only without a result and outside Submitting,
\* and once a result is there, every step but a restart leaves result,
\* answers and step as they are
C10_CreatedOnceThenImmutable ==
    [][/\ (pendingSubmit = <<>> /\ pendingSubmit' # <<>>) =>
             (result = <<>> /\ ~isSubmitting)
       /\ (result # <<>> /\ ~(\E m \in Modes : handleRestart(m))) =>
             UNCHANGED <<result, answers, step>>]_vars

\* a tap on the intake form, a question card or the result screen
UserAction ==
    \/ \E a \in Ages : handleUserInfoSubmit([age |-> a])
    \/ \E val \in AllValues, now \in Todays, random \in Randoms :
          handleAnswer(val, now, random)
    \/ \E now \in Todays, random \in Randoms : handleNext(now, random)
    \/ handleBack
    \/ \E m \in Modes : handleRestart(m)

\* a handler is suspended at its await
AsyncPending == pendingUsers # EmptyBag \/ pendingSubmit # <<>>

\* C11: while a handler awaits createUser or submitAssessment, no intake
\* submit, answer, next, back or restart is accepted
C11_SerializedActions ==
    [][AsyncPending => ~UserAction]_vars

\* C12: when createUser returns an id, step becomes 1, the identity is
\* collected, userId is the id returned and q1 holds the age group of the
\* submitted age; and when the entry is made from the intake form (the first
\* one, or one after Back from step 1) every other recorded answer is kept
C12_IntakeEntersStepOne ==
    [][\A call \in BagToSet(pendingUsers), u \in UserIds :
          createUserReturns(call, u) =>
            /\ step' = 1
            /\ isUserInfoCollected'
            /\ userId' = u
            /\ Get(answers', "q1") = AgeGroup(call.info.age)
            /\ ~isUserInfoCollected =>
                  \A k \in (DOMAIN answers) \ {"q1"} :
                      Has(answers', k) /\ answers'[k] = answers[k]]_vars

\* the age group the specification gives to an age
AgeGroupOf(a) ==
    CASE a \in 0..39 -> "Below 40"
      [] a \in 40..60 -> "40-60"
      [] a \in 61..119 -> "Above 60"

\* C13: every age of 0..119 is given a group, and the group is "Below 40"
\* under 40, "40-60" from 40 to 60 and "Above 60" over 60; so 39, 40, 60, 61
\* fall on the sides named and 0 and 119 have a group
C13_AgeGroupTotal ==
    /\ (calculatedAge \in 0..119 /\ ret = <<>>) => ENABLED DeriveAgeGroup
    /\ ret # <<>> =>
          /\ calculatedAge \in 0..119
          /\ ret[1] = AgeGroupOf(calculatedAge)
          /\ calculatedAge = 39 => ret[1] = "Below 40"
          /\ calculatedAge = 40 => ret[1] = "40-60"
          /\ calculatedAge = 60 => ret[1] = "40-60"
          /\ calculatedAge = 61 => ret[1] = "Above 60"
          /\ calculatedAge \in {0, 119} =>
                ret[1] \in {"Below 40", "40-60", "Above 60"}

\* the group of age 40 has been derived
C13_Witness ==
    calculatedAge = 40 /\ ret = <<"40-60">>

C15_BackFromStepOne ==
    [][(handleBack /\ step = 1) =>
          /\ ~isUserInfoCollected'
          /\ UNCHANGED <<step, answers, userInfo, userId, result>>]_vars

\* the intake form is shown again, with the identity and the answers kept
C15_Witness ==
    /\ FormShown
    /\ step = 1
    /\ userId # Null
    /\ userInfo # <<>>
    /\ Has(answers, "q1")

VisibleBefore(s, a) == {j \in 0..(s - 1) : Visible(j, a)}

Greatest(S) == CHOOSE x \in S : \A y \in S : x >= y

\* the index the backward scan should reach
PrevVisibleIndex(s, a) ==
    IF VisibleBefore(s, a) = {} THEN 0 ELSE Greatest(VisibleBefore(s, a))

\* C16: Back from a step above 1 moves step to the largest visible index
\* below it, or to 0 when there is none; the answers stay as they are and
\* step is not negative
C16_BackToPreviousVisible ==
    [][(handleBack /\ step > 1) =>
          /\ step' = PrevVisibleIndex(step, answers)
          /\ step' >= 0
          /\ UNCHANGED answers]_vars

\* Back from q12 has passed over the hidden q11 and stopped at q10
C16_Witness ==
    /\ CardShown
    /\ QUESTIONS = StoneQuestions
    /\ step = 9
    /\ Is(answers, "q9", "No")
    /\ Has(answers, "q10")
    /\ ~Has(answers, "q11")

\* a step of the forward traversal, and where it lands (N: past the end)
ForwardStep ==
    \/ \E val \in AllValues, now \in Todays, random \in Randoms :
          handleAnswer(val, now, random)
    \/ \E now \in Todays, random \in Randoms : handleNext(now, random)

Landing == IF isSubmitting' THEN N ELSE step'

\* C17: every traversal judges each question by the recorded answer of its
\* own dependsOn question and by nothing else: going forward, with the
\* answers as they are after the step, every question passed over fails that
\* test and the question reached passes it; going back from a step above 1,
\* with the answers recorded, the same holds downwards
C17_VisibilityFromOwnDependency ==
    [][/\ ForwardStep =>
             /\ Landing > step
             /\ \A j \in (step + 1)..(Landing - 1) : ~Visible(j, answers')
             /\ Landing < N => Visible(Landing, answers')
       /\ (handleBack /\ step > 1) =>
             /\ step' < step
             /\ \A j \in (step' + 1)..(step - 1) : ~Visible(j, answers)
             /\ Visible(step', answers)]_vars

\* q12 was answered "Yes", q13 "Normal", then q12 re-answered "No" after
\* going back: q13 is hidden now, and q14 is presented on the recorded q13
C17_Witness ==
    /\ CardShown
    /\ QUESTIONS = LabChainQuestions
    /\ step = 13
    /\ Is(answers, "q12", "No")
    /\ Is(answers, "q13", "Normal")
    /\ ~Visible(12, answers)

QrUnresolved ==
    \/ qrFetch = "failed"
    \/ qrFetch = "unsent" /\ reportData = Null

\* something of the wizard has happened: a start, an intake submit, an
\* answer or a submission
WizardTouched ==
    \/ hasStarted
    \/ intakes > 0
    \/ answers # EmptyObj
    \/ pendingSubmit # <<>>
    \/ result # <<>>

\* C20: without a resolved QR context the Invalid Access screen is shown with
\* qrError set, nothing of the wizard has happened and no step can be taken;
\* while the lookup is pending the loading screen is shown and no wizard
\* action can be taken; the welcome screen and the wizard are shown only
\* after a lookup that succeeded, with qrError cleared and qrNo set
C20_QrGate ==
    /\ QrUnresolved =>
          /\ InvalidAccessShown
          /\ qrError # Null
          /\ ~WizardTouched
          /\ ~ENABLED Next
    /\ qrFetch = "pending" =>
          /\ QrLoadingShown
          /\ ~WizardTouched
          /\ ~ENABLED (handleStart \/ UserAction)
    /\ (WelcomeShown \/ WizardShown \/ WizardTouched) =>
          /\ qrFetch = "loaded"
          /\ qrError = Null
          /\ qrNo # Null

\* the lookup failed: access is blocked although qrNo holds the parameter
C20_Witness ==
    /\ qrFetch = "failed"
    /\ InvalidAccessShown
    /\ qrNo # Null

\* C21: a createUser call that returns null leaves step, answers, userInfo,
\* userId and isUserInfoCollected as they are; whenever the identity is
\* marked collected userId is set, and a card or a submission is there only
\* with the identity collected; submitAssessment returns false without a
\* request when userId or qrNo is missing, and a request in flight carries
\* both
C21_NoIdentityNoWizard ==
    [][/\ \A call \in BagToSet(pendingUsers) :
             createUserReturns(call, Null) =>
                UNCHANGED <<step, answers, userInfo, userId,
                            isUserInfoCollected>>
       /\ isUserInfoCollected => userId # Null
       /\ isUserInfoCollected' => userId' # Null
       /\ (CardShown' \/ isSubmitting') => isUserInfoCollected'
       /\ \A uid \in {Null, "", "u1"}, qr \in {Null, "", "KH05"} :
             (uid \in {Null, ""} \/ qr \in {Null, ""}) =>
                submitAssessment(uid, qr) = "false"
       /\ (pendingSubmit' # <<>> /\ pendingSubmit'[1].status = "inflight") =>
             (pendingSubmit'[1].userId # Null /\ pendingSubmit'[1].qrNo # Null)
      ]_vars

\* the intake form is still shown after createUser failed
C21_Witness ==
    /\ FormShown
    /\ alertMsg = "Failed to save user information"
    /\ userId = Null
    /\ userInfo = <<>>
    /\ step = 0

\* C22: calculateResult returns a zone for every answer set, the empty one
\* and those with keys missing included; RED is returned only on a RED flag
\* that is present and AMBER only on an AMBER condition of a present key, so
\* the empty answer set is GREEN; and the zone is a function of the answer
\* set: computing it again gives the zone returned
C22_TotalOnMissingKeys ==
    /\ ~Classified => ENABLED Classify
    /\ Classified =>
          /\ ret[1] \in {"RED", "AMBER", "GREEN"}
          /\ ret[1] = "RED" => AnyRedFlag(data)
          /\ ret[1] = "AMBER" => AmberCondition(data)
          /\ data = EmptyObj => ret[1] = "GREEN"
          /\ ret[1] = calculateResult(data)

\* the empty answer set has been classified
C22_Witness ==
    Classified /\ data = EmptyObj /\ ret[1] = "GREEN"

\* calculateResult with the Diabetic + Trace rule taken out: the RED test,
\* then the general AMBER test, then GREEN
WithoutOverride(d) ==
    LET isRed == \E k \in {"q6", "q7", "q8", "q10"} : Get(d, k) = "Yes"
        isAmber ==
            \/ (Truthy(Get(d, "q3")) /\ Get(d, "q3") # "No")
            \/ Get(d, "q4") = "Yes"
            \/ Get(d, "q5") = "Yes"
            \/ (Truthy(Get(d, "q9")) /\ Get(d, "q9") # "No")
            \/ Get(d, "q11") = "Yes"
            \/ Get(d, "q1") = "Above 60"
            \/ Get(d, "q15") \in {"Trace", "1+", "2+", "3+"}
    IN  IF isRed THEN "RED" ELSE IF isAmber THEN "AMBER" ELSE "GREEN"

\* C23: for every answer set the zone returned is the zone of the same rules
\* without the Diabetic + Trace override
C23_OverrideSubsumed ==
    Classified => ret[1] = WithoutOverride(data)

\* an answer set on which the override decides: high BP and diabetes, a
\* trace of protein, no RED flag
C23_Witness ==
    /\ Classified /\ ret[1] = "AMBER"
    /\ Is(data, "q3", "Both") /\ Is(data, "q15", "Trace")
    /\ ~AnyRedFlag(data)
    /\ ~Has(data, "q1")

\* the number written by two digits
TwoDigits(ds, i) == 10 * ds[i] + ds[i + 1]

\* C24: the code is KN, the zone, six digits and a number: the digits are
\* the day, the month counted from 1 and the last two digits of the year,
\* each on two places, and the number lies in 100..999, for every zone and
\* every value of the random source
C24_PriorityCodeFormat ==
    ret # <<>> =>
        LET code == ret[1]
        IN  /\ Len(code) = 4
            /\ code[1] = "KN"
            /\ code[2] = data.zone
            /\ Len(code[3]) = 6
            /\ \A i \in 1..6 : code[3][i] \in 0..9
            /\ TwoDigits(code[3], 1) = data.now.date
            /\ TwoDigits(code[3], 3) = data.now.month + 1
            /\ TwoDigits(code[3], 3) \in 1..12
            /\ TwoDigits(code[3], 5) = data.now.year % 100
            /\ code[4] \in 100..999

\* the code of 1 January 2000 with the largest random value
C24_Witness ==
    /\ ret # <<>>
    /\ data.now = [date |-> 1, month |-> 0, year |-> 2000]
    /\ data.random = 999
    /\ ret[1][3] = <<0, 1, 0, 1, 0, 0>>
    /\ ret[1][4] = 999

(***************************************************************************)
(* POST /api/assessment (backend/server.js)                                *)
(***************************************************************************)
\* rows of table qr_config
QrConfigRows ==
    {[qr_no |-> "KH05", location |-> "Chennai", unit_code |-> "CHN",
      is_active |-> TRUE],
     [qr_no |-> "KH07", location |-> "Salem", unit_code |-> "SLM",
      is_active |-> FALSE]}

\* request bodies; Undefined is a key the body does not have
ReqQrNos == {Undefined, "", "KH05", "KH07", "KH99"}
ReqUserIds == {Undefined, "u1"}
ReqUsers == {Undefined, "{name:'Asha'}", "{name:7}"}
ReqAnswers == {Undefined, "{q1:'Yes'}"}
ReqRiskZones == {Undefined, "RED", "GREEN"}
ReqPriorityCodes == {Undefined, "", "KN-RED-051126-100"}
ReqLanguages == {Undefined, "ta"}
ReqModes == {Undefined, "family"}

RequestBodies ==
    [qr_no : ReqQrNos, user_id : ReqUserIds, user : ReqUsers,
     answers : ReqAnswers, risk_zone : ReqRiskZones,
     priority_code : ReqPriorityCodes, language : ReqLanguages,
     mode : ReqModes]

\* x || dflt
OrElse(x, dflt) == IF Truthy(x) THEN x ELSE dflt

\* res.status(code).json(body)
Respond(code, body) == <<[status |-> code, body |-> body]>>

\* WHERE qr_no = @qr_no AND is_active = 1
SelectQrConfig(qr_no) ==
    {row \in QrConfigRows : row.qr_no = qr_no /\ row.is_active}

\* res.json({ ok: true, ... })
OkBody(status, code) ==
    [ok |-> TRUE, qr_no |-> cfg[1].qr_no, location |-> cfg[1].location,
     unit_code |-> cfg[1].unit_code, crmStatus |-> status,
     crmResponseCode |-> code, crmEnabled |-> ENABLE_CRM]

\* the handler up to its first await: validation, then getQrConfig(qr_no)
PostAssessment ==
    /\ pc = "received"
    /\ IF \/ ~Truthy(req.qr_no)
          \/ ~Truthy(req.user_id)
          \/ ~Truthy(req.answers)
          \/ ~Truthy(req.risk_zone)
          \/ ~Truthy(req.priority_code)
       THEN /\ res' = Respond("400", [error |-> "Missing required fields"])
            /\ pc' = "done"
            /\ UNCHANGED lookups
       ELSE /\ lookups' = lookups + 1
            /\ pc' = "lookup"
            /\ UNCHANGED res
    /\ UNCHANGED <<ENABLE_CRM, req, cfg, assessment, inserts, crmCalls,
                   crmStatus, crmResponseCode>>
    /\ UNCHANGED <<QUESTIONS, pureVars, wizardVars>>

\* getQrConfig settles; on a row the INSERT is issued
QrLookupReturns(outcome) ==
    /\ pc = "lookup"
    /\ IF outcome = "throws"
       THEN /\ res' = Respond("500", [error |-> "Internal error"])
            /\ pc' = "done"
            /\ UNCHANGED <<cfg, inserts>>
       ELSE IF SelectQrConfig(req.qr_no) = {}
       THEN /\ res' = Respond("404", [error |-> "QR not found or inactive"])
            /\ pc' = "done"
            /\ UNCHANGED <<cfg, inserts>>
       ELSE /\ cfg' = <<CHOOSE row \in SelectQrConfig(req.qr_no) : TRUE>>
            /\ inserts' = inserts + 1
            /\ pc' = "insert"
            /\ UNCHANGED res
    /\ UNCHANGED <<ENABLE_CRM, req, assessment, lookups, crmCalls, crmStatus,
                   crmResponseCode>>
    /\ UNCHANGED <<QUESTIONS, pureVars, wizardVars>>

\* variant: the CRM is called whatever the INSERT did
InsertReturns_CrmAnyway(outcome) ==
    /\ pc = "insert"
    /\ IF outcome = "ok"
       THEN assessment' = Append(assessment,
                [user_id |-> req.user_id, qr_no |-> cfg[1].qr_no,
                 location |-> cfg[1].location, risk_zone |-> req.risk_zone,
                 priority_code |-> req.priority_code,
                 language |-> OrElse(req.language, "en"),
                 mode |-> OrElse(req.mode, "self"),
                 raw_answers_json |-> req.answers])
       ELSE UNCHANGED assessment
    /\ IF ~ENABLE_CRM
       THEN /\ res' = Respond("200", OkBody("skipped", Null))
            /\ pc' = "done"
            /\ UNCHANGED <<crmCalls, crmStatus>>
       ELSE IF req.user = "{name:7}"
       THEN /\ crmStatus' = "failed"
            /\ res' = Respond("200", OkBody("failed", Null))
            /\ pc' = "done"
            /\ UNCHANGED crmCalls
       ELSE /\ crmCalls' = crmCalls + 1
            /\ pc' = "crm"
            /\ UNCHANGED <<res, crmStatus>>
    /\ UNCHANGED <<ENABLE_CRM, req, cfg, lookups, inserts, crmResponseCode>>
    /\ UNCHANGED <<QUESTIONS, pureVars, wizardVars>>

\* the INSERT settles; with ENABLE_CRM the payload is built and sent
\* ((user?.name || '').trim() throws on a name that is no string)
InsertReturns(outcome) ==
    /\ pc = "insert"
    /\ IF outcome = "throws"
       THEN /\ res' = Respond("500", [error |-> "Database error"])
            /\ pc' = "done"
            /\ UNCHANGED <<assessment, crmCalls, crmStatus>>
       ELSE /\ assessment' = Append(assessment,
                [user_id |-> req.user_id, qr_no |-> cfg[1].qr_no,
                 location |-> cfg[1].location, risk_zone |-> req.risk_zone,
                 priority_code |-> req.priority_code,
                 language |-> OrElse(req.language, "en"),
                 mode |-> OrElse(req.mode, "self"),
                 raw_answers_json |-> req.answers])
            /\ IF ~ENABLE_CRM
               THEN /\ res' = Respond("200", OkBody("skipped", Null))
                    /\ pc' = "done"
                    /\ UNCHANGED <<crmCalls, crmStatus>>
               ELSE IF req.user = "{name:7}"
               THEN /\ crmStatus' = "failed"
                    /\ res' = Respond("200", OkBody("failed", Null))
                    /\ pc' = "done"
                    /\ UNCHANGED crmCalls
               ELSE /\ crmCalls' = crmCalls + 1
                    /\ pc' = "crm"
                    /\ UNCHANGED <<res, crmStatus>>
    /\ UNCHANGED <<ENABLE_CRM, req, cfg, lookups, inserts, crmResponseCode>>
    /\ UNCHANGED <<QUESTIONS, pureVars, wizardVars>>

\* variant: a CRM that does not answer 2xx fails the request
CrmReturns_FailsRequest(outcome) ==
    /\ pc = "crm"
    /\ pc' = "done"
    /\ IF outcome = "200"
       THEN /\ crmResponseCode' = outcome
            /\ crmStatus' = "success"
            /\ res' = Respond("200", OkBody("success", outcome))
       ELSE /\ crmResponseCode' = IF outcome = "throws" THEN Null ELSE outcome
            /\ crmStatus' = "failed"
            /\ res' = Respond("502", [error |-> "CRM error"])
    /\ UNCHANGED <<ENABLE_CRM, req, cfg, assessment, lookups, inserts,
                   crmCalls>>
    /\ UNCHANGED <<QUESTIONS, pureVars, wizardVars>>

\* fetchFn settles: a status, or a throw
CrmReturns(outcome) ==
    /\ pc = "crm"
    /\ pc' = "done"
    /\ IF outcome = "throws"
       THEN /\ crmStatus' = "failed"
            /\ UNCHANGED crmResponseCode
            /\ res' = Respond("200", OkBody("failed", crmResponseCode))
       ELSE /\ crmResponseCode' = outcome
            /\ crmStatus' = IF outcome = "200" THEN "success" ELSE "failed"
            /\ res' = Respond("200", OkBody(crmStatus', outcome))
    /\ UNCHANGED <<ENABLE_CRM, req, cfg, assessment, lookups, inserts,
                   crmCalls>>
    /\ UNCHANGED <<QUESTIONS, pureVars, wizardVars>>

DbOutcomes == {"ok", "throws"}
CrmOutcomes == {"200", "502", "throws"}

\* one request received by a server started with either ENABLE_CRM
ServerInit ==
    /\ WizardIdle
    /\ QUESTIONS = KidneyQuestions
    /\ data = EmptyObj
    /\ currentStep = 0
    /\ calculatedAge = 0
    /\ ret = <<>>
    /\ ENABLE_CRM \in BOOLEAN
    /\ req \in RequestBodies
    /\ pc = "received"
    /\ cfg = <<>>
    /\ assessment = <<>>
    /\ lookups = 0
    /\ inserts = 0
    /\ crmCalls = 0
    /\ crmStatus = "skipped"
    /\ crmResponseCode = Null
    /\ res = <<>>

ServerNext ==
    \/ PostAssessment
    \/ \E outcome \in DbOutcomes : QrLookupReturns(outcome)
    \/ \E outcome \in DbOutcomes : InsertReturns(outcome)
    \/ \E outcome \in CrmOutcomes : CrmReturns(outcome)

SpecServer == ServerInit /\ [][ServerNext]_vars

Responded == pc = "done" /\ res # <<>>

Inserted == assessment # <<>>

MissingField ==
    \/ ~Truthy(req.qr_no)
    \/ ~Truthy(req.user_id)
    \/ ~Truthy(req.answers)
    \/ ~Truthy(req.risk_zone)
    \/ ~Truthy(req.priority_code)

StatusSent(code) == Responded /\ res[1].status = code

\* C27: the handler validates, looks the QR up, inserts and calls the CRM in
\* this order and stops at the first failure: a missing field gives 400
\* with no lookup, insert or CRM call; an unknown or inactive QR gives 404
\* with no insert or CRM call; a failed insert gives 500 with no CRM call;
\* the CRM is called at most once, only after a successful insert and only
\* when enabled.
C27_StopsAtFirstFailure ==
    /\ lookups <= 1 /\ inserts <= 1 /\ crmCalls <= 1
    /\ MissingField =>
          /\ lookups = 0 /\ inserts = 0 /\ crmCalls = 0
          /\ pc = "done" => StatusSent("400")
    /\ StatusSent("400") =>
          MissingField /\ lookups = 0 /\ inserts = 0 /\ crmCalls = 0
    /\ (~MissingField /\ SelectQrConfig(req.qr_no) = {}) =>
          /\ inserts = 0 /\ crmCalls = 0
          /\ pc = "done" => (StatusSent("404") \/ StatusSent("500"))
    /\ StatusSent("404") =>
          /\ SelectQrConfig(req.qr_no) = {}
          /\ lookups = 1 /\ inserts = 0 /\ crmCalls = 0
    /\ StatusSent("500") => ~Inserted /\ crmCalls = 0
    /\ inserts = 1 => lookups = 1 /\ cfg # <<>>
    /\ Inserted => inserts = 1
    /\ crmCalls = 1 => ENABLE_CRM /\ Inserted
    /\ pc = "crm" => crmCalls = 1
    /\ Responded => res[1].status \in {"200", "400", "404", "500"}
    /\ StatusSent("200") => Inserted

C27_Witness ==
    /\ StatusSent("500")
    /\ ENABLE_CRM
    /\ req.user = "{name:'Asha'}"
    /\ inserts = 1
    /\ crmCalls = 0

\* the keys on which two answer sets differ
ChangedKeys(old, new) ==
    {k \in (DOMAIN old) \cup (DOMAIN new) : Get(old, k) # Get(new, k)}

\* C26: between an intake submit and the next Restart no step removes a
\* key from answers; a step changes at most the key of the question being
\* answered, or q1 when an intake submit completes
C26_AnswersGrow ==
    [][(~\E m \in Modes : handleRestart(m)) =>
          /\ DOMAIN answers \subseteq DOMAIN answers'
          /\ ChangedKeys(answers, answers') \subseteq
                IF \E call \in BagToSet(pendingUsers), u \in UserIds :
                      createUserReturns(call, u)
                THEN {"q1"}
                ELSE IF \E val \in AllValues, now \in Todays,
                           random \in Randoms : handleAnswer(val, now, random)
                THEN {QuestionAt(step).id}
                ELSE {}]_vars

\* C28: step stays in 0..N-1: the step that completes the flow, and the
\* continuation that stores the result, leave step where it was, so
\* QUESTIONS[step] exists whenever a card is shown or an answer is handled
C28_StepInRange ==
    [][/\ step \in 0..(N - 1)
       /\ step' \in 0..(N - 1)
       /\ (step + 1) \in DOMAIN QUESTIONS
       /\ (CardShown' \/ isSubmitting') => (step' + 1) \in DOMAIN QUESTIONS
       /\ (~isSubmitting /\ isSubmitting') => step' = step
       /\ resumeSubmit =>
             /\ step' = step
             /\ UNCHANGED <<hasStarted, isUserInfoCollected, userInfo,
                            userId, mode, qrNo, language, unit>>]_vars

C28_Witness ==
    /\ isSubmitting
    /\ pendingSubmit # <<>>
    /\ pendingSubmit[1].by = "answer"
    /\ step = N - 1
    /\ QuestionAt(step).id \in DOMAIN answers

\* every question visible under a has a value in a
Complete(a) ==
    \A i \in 0..(N - 1) : Visible(i, a) => Truthy(Get(a, QuestionAt(i).id))

\* C29: the answers from which a result is computed hold a value for every
\* question visible under them, whatever Answer, Back, Next and intake
\* re-entry came before
C29_CompleteAtSubmission ==
    pendingSubmit # <<>> => Complete(pendingSubmit[1].answers)

C29_Witness ==
    /\ pendingSubmit # <<>>
    /\ pendingSubmit[1].by = "next"
    /\ intakes = 2
    /\ \E i \in 0..(N - 1) :
          /\ ~Visible(i, pendingSubmit[1].answers)
          /\ Has(pendingSubmit[1].answers, QuestionAt(i).id)

\* C30: the zone, code and answers passed to submitAssessment are the
\* result and answers stored in state and shown on the result screen; the
\* zone inside the priority code is result.zone; language, mode, userId and
\* qrNo sent are those of the state in which the final action was taken
C30_PersistedIsShown ==
    [][/\ (pendingSubmit = <<>> /\ pendingSubmit' # <<>>) =>
             LET p == pendingSubmit'[1]
             IN  /\ p.answers = answers'
                 /\ p.result.zone = calculateResult(answers')
                 /\ p.result.code[2] = p.result.zone
                 /\ p.payload # <<>>
                 /\ p.payload[1].answers = p.answers
                 /\ p.payload[1].risk_zone = p.result.zone
                 /\ p.payload[1].priority_code = p.result.code
                 /\ p.payload[1].language = language
                 /\ p.payload[1].mode = mode
                 /\ p.payload[1].user_id = userId
                 /\ p.payload[1].qr_no = qrNo
       /\ resumeSubmit =>
             /\ ResultShown'
             /\ result' = <<pendingSubmit[1].result>>
             /\ answers' = pendingSubmit[1].answers
       /\ result # <<>> => result[1].code[2] = result[1].zone]_vars

====
